---- MODULE Spec2Model ----
(***************************************************************************)
(* Model of generator.py: the LOC call-number formatter                    *)
(* (Generator._format_ident), the year-suffix test (has_valid_year_at_end) *)
(* and the prompt_book / store_book workflow around them.                  *)
(*                                                                         *)
(* A Python str is a sequence of one-character strings.                    *)
(***************************************************************************)
EXTENDS Integers, Sequences, FiniteSets, TLC

\* ------------------------------------------------------------ characters

LowerCase ==
    << "a", "b", "c", "d", "e", "f", "g", "h", "i", "j", "k", "l", "m",
       "n", "o", "p", "q", "r", "s", "t", "u", "v", "w", "x", "y", "z" >>

UpperCase ==
    << "A", "B", "C", "D", "E", "F", "G", "H", "I", "J", "K", "L", "M",
       "N", "O", "P", "Q", "R", "S", "T", "U", "V", "W", "X", "Y", "Z" >>

\* DecDigits[k] is the digit of value k - 1.
DecDigits == << "0", "1", "2", "3", "4", "5", "6", "7", "8", "9" >>

\* HexDigits[k] is the uppercase hexadecimal digit of value k - 1 (format type X).
HexDigits ==
    << "0", "1", "2", "3", "4", "5", "6", "7", "8", "9",
       "A", "B", "C", "D", "E", "F" >>

Range(s) == { s[k] : k \in DOMAIN s }

LowerSet == Range(LowerCase)

UpperSet == Range(UpperCase)

\* [A-Za-z], str.isalpha on one character
Letters == LowerSet \cup UpperSet

\* \d, str.isdigit on one character
DigitSet == Range(DecDigits)

\* \s, and the characters str.strip() and str.split() remove
Whitespace == { " ", "\n", "\t" }

\* \w: the characters that are not a word boundary next to a letter
WordChars == Letters \cup DigitSet \cup { "_" }

UpperMap == [ c \in LowerSet |-> UpperCase[CHOOSE k \in 1..26 : LowerCase[k] = c] ]

LowerMap == [ c \in UpperSet |-> LowerCase[CHOOSE k \in 1..26 : UpperCase[k] = c] ]

upper_char(c) == IF c \in LowerSet THEN UpperMap[c] ELSE c

lower_char(c) == IF c \in UpperSet THEN LowerMap[c] ELSE c

DigitVal(c) == (CHOOSE k \in 1..10 : DecDigits[k] = c) - 1

\* --------------------------------------------------------------- strings

Min(S) == CHOOSE x \in S : \A y \in S : x <= y

\* s[n:] for 0 <= n
Drop(s, n) == SubSeq(s, n + 1, Len(s))

\* s[:n] for 0 <= n
Take(s, n) == SubSeq(s, 1, IF n < Len(s) THEN n ELSE Len(s))

\* s[-n:] for n > 0
LastN(s, n) == IF Len(s) <= n THEN s ELSE SubSeq(s, Len(s) - n + 1, Len(s))

\* The number of leading characters of s that lie in the class C: what a greedy
\* C* consumes at the start of s.
SpanLen(s, C) ==
    LET stop == { k \in 1..Len(s) : s[k] \notin C }
    IN  IF stop = {} THEN Len(s) ELSE Min(stop) - 1

\* str.upper
upper(s) == [ k \in 1..Len(s) |-> upper_char(s[k]) ]

\* str.lower
lower(s) == [ k \in 1..Len(s) |-> lower_char(s[k]) ]

\* str.isdigit: non-empty and all digits
isdigit(s) == s # << >> /\ \A k \in 1..Len(s) : s[k] \in DigitSet

\* int(s) of a string of decimal digits
int(s) ==
    LET value[k \in 0..Len(s)] ==
            IF k = 0 THEN 0 ELSE 10 * value[k - 1] + DigitVal(s[k])
    IN  value[Len(s)]

\* str.strip
strip(s) ==
    LET a == SpanLen(s, Whitespace)
        keep == { k \in 1..Len(s) : s[k] \notin Whitespace }
    IN  IF keep = {} THEN << >>
        ELSE SubSeq(s, a + 1, CHOOSE k \in keep : \A j \in keep : j <= k)

\* re.sub(r"\s+", " ", s)
RECURSIVE CollapseWhitespace(_)
CollapseWhitespace(s) ==
    IF s = << >> THEN << >>
    ELSE IF s[1] \in Whitespace
         THEN << " " >> \o CollapseWhitespace(Drop(s, SpanLen(s, Whitespace)))
         ELSE << s[1] >> \o CollapseWhitespace(Tail(s))

\* str.split(): the maximal runs of non-whitespace characters
RECURSIVE split(_)
split(s) ==
    LET t == Drop(s, SpanLen(s, Whitespace))
        w == IF \E k \in 1..Len(t) : t[k] \in Whitespace
             THEN Min({ k \in 1..Len(t) : t[k] \in Whitespace }) - 1
             ELSE Len(t)
    IN  IF t = << >> THEN << >> ELSE << Take(t, w) >> \o split(Drop(t, w))

\* "\n".join(lines)
RECURSIVE join(_)
join(lines) ==
    IF lines = << >> THEN << >>
    ELSE IF Len(lines) = 1 THEN lines[1]
         ELSE lines[1] \o << "\n" >> \o join(Tail(lines))

\* text.split("\n"): always at least one line
RECURSIVE split_lines(_)
split_lines(text) ==
    LET nl == { k \in 1..Len(text) : text[k] = "\n" }
    IN  IF nl = {} THEN << text >>
        ELSE << Take(text, Min(nl) - 1) >> \o split_lines(Drop(text, Min(nl)))

\* ------------------------------------------------- Generator._format_ident

\* The alternatives of the prefix pattern, in the pattern's order.
PrefixWords ==
    << << "R", "E", "F" >>,
       << "J", "U", "V" >>,
       << "O", "V", "E", "R", "S", "I", "Z", "E" >>,
       << "M", "A", "P", "S" >>,
       << "D", "O", "C", "S" >>,
       << "S", "E", "R", "I", "A", "L" >>,
       << "M", "I", "C", "R", "O" >>,
       << "S", "H", "E", "L", "F" >> >>

\* One alternative w of ^(REF|...)\b under re.IGNORECASE at the start of cn.
MatchesPrefix(cn, w) ==
    /\ Len(cn) >= Len(w)
    /\ upper(Take(cn, Len(w))) = w
    /\ (Len(cn) = Len(w) \/ cn[Len(w) + 1] \notin WordChars)

\* prefix_match.end(), or 0 when the pattern does not match.
prefix_match(cn) ==
    LET hits == { k \in 1..Len(PrefixWords) : MatchesPrefix(cn, PrefixWords[k]) }
    IN  IF hits = {} THEN 0 ELSE Len(PrefixWords[Min(hits)])

\* Prefix extraction: parts and cn after the "Common prefixes" block.
StripPrefix(ps, c) ==
    LET e == prefix_match(c)
    IN  IF e > 0
        THEN [parts |-> Append(ps, upper(Take(c, e))), cn |-> strip(Drop(c, e))]
        ELSE [parts |-> ps, cn |-> c]

\* What \d+(?:\.\d+)? consumes at the start of s (0: no match).
NumberLen(s) ==
    LET d == SpanLen(s, DigitSet)
        r == Drop(s, d)
        f == IF r # << >> /\ r[1] = "." THEN SpanLen(Tail(r), DigitSet) ELSE 0
    IN  IF d = 0 THEN 0 ELSE IF f > 0 THEN d + 1 + f ELSE d

\* ^([A-Z]{1,3})\s*(\d+(?:\.\d+)?) under re.IGNORECASE. Letters, whitespace and
\* digits are disjoint classes, so the pattern matches exactly when the leading
\* letter run has 1 to 3 letters and a digit follows the whitespace after it.
\* end = 0: no match.
main_match(c) ==
    LET k == SpanLen(c, Letters)
        w == SpanLen(Drop(c, k), Whitespace)
        n == NumberLen(Drop(c, k + w))
    IN  IF k \in 1..3 /\ n > 0
        THEN [end |-> k + w + n, letters |-> Take(c, k),
              number |-> SubSeq(c, k + w + 1, k + w + n)]
        ELSE [end |-> 0, letters |-> << >>, number |-> << >>]

\* The value standing for an IndexError raised by cn.split()[0].
IndexError == << "IndexError" >>

\* cn.split()[0] if cn else ""
FirstToken(c) ==
    IF c # << >>
    THEN IF split(c) = << >> THEN IndexError ELSE split(c)[1]
    ELSE << >>

\* Main class, or the first-token fallback.
TakeMainClass(ps, c) ==
    LET m == main_match(c)
        token == FirstToken(c)
    IN  IF m.end > 0
        THEN [parts |-> Append(ps, upper(m.letters) \o m.number),
              cn |-> strip(Drop(c, m.end)), raised |-> FALSE]
        ELSE IF token = IndexError
             THEN [parts |-> ps, cn |-> c, raised |-> TRUE]
             ELSE [parts |-> Append(ps, upper(token)),
                   cn |-> strip(Drop(c, Len(token))), raised |-> FALSE]

\* re.sub(r"\.+", " . ", cn)
RECURSIVE SpaceOutDots(_)
SpaceOutDots(s) ==
    IF s = << >> THEN << >>
    ELSE IF s[1] = "."
         THEN << " ", ".", " " >> \o SpaceOutDots(Drop(s, SpanLen(s, { "." })))
         ELSE << s[1] >> \o SpaceOutDots(Tail(s))

\* tokens = [t for t in spaced.split() if t]
Tokenize(c) == split(SpaceOutDots(c))

\* The dot fold without the i += 1 of its trailing-dot branch
FoldDot_stuck(toks, k) ==
    IF toks[k + 1] = << "." >>
    THEN IF k + 1 < Len(toks)
         THEN [token |-> << "." >> \o toks[k + 2], i |-> k + 2]
         ELSE [token |-> << "." >>, i |-> k]
    ELSE [token |-> toks[k + 1], i |-> k + 1]

\* "Attach '.' to next token if token is just a dot"; i counts from 0 as in the code.
FoldDot(toks, k) ==
    IF toks[k + 1] = << "." >>
    THEN IF k + 1 < Len(toks)
         THEN [token |-> << "." >> \o toks[k + 2], i |-> k + 2]
         ELSE [token |-> << "." >>, i |-> k + 1]
    ELSE [token |-> toks[k + 1], i |-> k + 1]

\* re.fullmatch(r"([vc])\.(\d+)", token, re.IGNORECASE)
IsVolCopy(token) ==
    /\ Len(token) >= 3
    /\ token[1] \in { "v", "c", "V", "C" }
    /\ token[2] = "."
    /\ isdigit(Drop(token, 2))

\* re.fullmatch(r"\d{4}[A-Za-z]?", token)
IsYearToken(token) ==
    /\ Len(token) \in { 4, 5 }
    /\ isdigit(Take(token, 4))
    /\ (Len(token) = 5 => token[5] \in Letters)

\* re.fullmatch(r"\d{4}", token)
IsBareYear(token) == Len(token) = 4 /\ isdigit(token)

\* re.fullmatch(r"[A-Za-z]", line)
IsSingleLetter(line) == Len(line) = 1 /\ line[1] \in Letters

\* re.fullmatch(r"[A-Za-z]+\d+(?:\.\d+)?", token)
IsBareCutter(token) ==
    LET k == SpanLen(token, Letters)
        n == NumberLen(Drop(token, k))
    IN  k > 0 /\ n > 0 /\ k + n = Len(token)

\* re.findall(r"([A-Za-z]+)(\d+(?:\.\d+)?)", s): the (letters, number) groups, left
\* to right, the scan moving one character on where no match starts.
RECURSIVE findall_groups(_)
findall_groups(s) ==
    IF s = << >> THEN << >>
    ELSE LET k == SpanLen(s, Letters)
             n == NumberLen(Drop(s, k))
         IN  IF k > 0 /\ n > 0
             THEN << << Take(s, k), SubSeq(s, k + 1, k + n) >> >>
                      \o findall_groups(Drop(s, k + n))
             ELSE findall_groups(Tail(s))

\* normalized.append(g[0].upper() + g[1]): the cutter's dot left out
CutterLines_nodot(groups) ==
    [ j \in 1..Len(groups) |-> upper(groups[j][1]) \o groups[j][2] ]

\* for g in groups: normalized.append("." + g[0].upper() + g[1])
CutterLines(groups) ==
    [ j \in 1..Len(groups) |-> << "." >> \o upper(groups[j][1]) \o groups[j][2] ]

\* The branches of the token loop after the dot fold: normalized after the token.
Classify(token, norm) ==
    IF IsVolCopy(token)
    THEN Append(norm, << lower_char(token[1]), "." >> \o Drop(token, 2))
    ELSE IF IsYearToken(token)
    THEN Append(norm, token)
    ELSE IF token[1] = "."
    THEN LET core == Tail(token)
             groups == findall_groups(core)
         IN  IF groups # << >>
             THEN norm \o CutterLines(groups)
             ELSE Append(norm, << "." >> \o core)
    ELSE IF IsBareCutter(token)
    THEN LET groups == findall_groups(token)
         IN  IF groups # << >>
             THEN norm \o CutterLines(groups)
             ELSE Append(norm, << "." >> \o upper(token))
    ELSE IF IsBareYear(token) /\ norm # << >> /\ IsSingleLetter(norm[Len(norm)])
    THEN [norm EXCEPT ![Len(norm)] = @ \o token]
    ELSE Append(norm, token)

\* One iteration of "while i < len(tokens)".
WalkStep(toks, k, norm) ==
    LET f == FoldDot(toks, k)
    IN  [i |-> f.i, normalized |-> Classify(f.token, norm)]

\* What (\d*(?:\.\d+)?) consumes at the start of s.
CutterTailLen(s) ==
    LET d == SpanLen(s, DigitSet)
        r == Drop(s, d)
        f == IF r # << >> /\ r[1] = "." THEN SpanLen(Tail(r), DigitSet) ELSE 0
    IN  IF f > 0 THEN d + 1 + f ELSE d

\* One line of the "casing rules" post-processing loop.
PostLine(p) ==
    IF IsYearToken(p) THEN p
    ELSE IF IsVolCopy(p) THEN lower(p)
    ELSE IF p # << >> /\ p[1] = "."
    THEN LET k == SpanLen(Tail(p), Letters)
             n == CutterTailLen(Drop(p, 1 + k))
         IN  IF k > 0
             THEN << "." >> \o upper(SubSeq(p, 2, 1 + k)) \o SubSeq(p, 2 + k, 1 + k + n)
             ELSE p
    ELSE upper(p)

\* The casing rules followed by a regrouping: the dotted lines first, the rest after
PostProcess_regrouped(norm) ==
    LET out == [ j \in 1..Len(norm) |-> PostLine(norm[j]) ]
    IN  SelectSeq(out, LAMBDA p : p # << >> /\ p[1] = ".")
            \o SelectSeq(out, LAMBDA p : ~(p # << >> /\ p[1] = "."))

PostProcess(norm) == [ j \in 1..Len(norm) |-> PostLine(norm[j]) ]

\* The whole token loop from index k on.
RECURSIVE Walk(_, _, _)
Walk(toks, k, norm) ==
    IF k < Len(toks)
    THEN LET s == WalkStep(toks, k, norm) IN Walk(toks, s.i, s.normalized)
    ELSE norm

\* The guard of the first return: not call_number or not call_number.strip()
IsBlank(s) == s = << >> \/ strip(s) = << >>

\* final_lines of _format_ident (no lines for a blank input).
format_lines(s) ==
    IF IsBlank(s) THEN << >>
    ELSE LET p == StripPrefix(<< >>, CollapseWhitespace(strip(s)))
             m == TakeMainClass(p.parts, p.cn)
         IN  m.parts \o PostProcess(Walk(Tokenize(m.cn), 0, << >>))

\* The string _format_ident returns.
format_ident(s) == join(format_lines(s))

\* ---------------------------------------------------- has_valid_year_at_end

YearLo == 1000

YearHi == 2999

YearLen == 4

\* The range test written 1000 < year < 2999
has_valid_year_exclusive(text) ==
    IF Len(text) < YearLen THEN FALSE
    ELSE LET t == IF text[Len(text)] \in Letters THEN Take(text, Len(text) - 1) ELSE text
             last_four == LastN(t, YearLen)
         IN  IF ~isdigit(last_four) THEN FALSE
             ELSE YearLo < int(last_four) /\ int(last_four) < YearHi

has_valid_year_at_end(text) ==
    IF Len(text) < YearLen THEN FALSE
    ELSE LET t == IF text[Len(text)] \in Letters THEN Take(text, Len(text) - 1) ELSE text
             last_four == LastN(t, YearLen)
         IN  IF ~isdigit(last_four) THEN FALSE
             ELSE YearLo <= int(last_four) /\ int(last_four) <= YearHi

\* Python's None, where a str may stand.
None == << "None" >>

\* prompt_book: if not has_valid_year_at_end(book.ident) and book.year is not None:
\*                  book.ident += " " + book.year[-4:]
ensure_year(ident, year) ==
    IF ~has_valid_year_at_end(ident) /\ year # None
    THEN ident \o << " " >> \o LastN(year, YearLen)
    ELSE ident

\* ------------------------------------------------------ Generator.store_book

\* str(n) for n >= 0
RECURSIVE str(_)
str(n) ==
    IF n < 10 THEN << DecDigits[n + 1] >> ELSE str(n \div 10) \o << DecDigits[(n % 10) + 1] >>

\* uid_f.readline(): the first line with its newline
readline(file) ==
    LET nl == { k \in 1..Len(file) : file[k] = "\n" }
    IN  IF nl = {} THEN file ELSE Take(file, Min(nl))

\* int(uid_f.readline()): int() ignores the surrounding whitespace
read_uid(file) == int(strip(readline(file)))

\* uid_f.writelines([data]) without the seek(0): written where readline() stopped
overwrite_noseek(file, data) == file \o data

\* uid_f.seek(0); uid_f.writelines([data]): an "r+" file is overwritten in place from
\* offset 0 and keeps whatever lies beyond the written data.
overwrite(file, data) == data \o Drop(file, Len(data))

\* The counter file after the first with block of store_book.
store_counter(file) == overwrite(file, str(read_uid(file) + 1))

\* f'{current_uid},"{book.title}","{book.authors}","{book.ident}"\n'
csv_line(current_uid, b) ==
    str(current_uid) \o << ",", "\"" >> \o b.title \o << "\"", ",", "\"" >> \o b.authors
        \o << "\"", ",", "\"" >> \o b.ident \o << "\"", "\n" >>

\* ------------------------------------------------------ label text (prompt_book)

PadWidth == 4

\* The digits of format type X for n >= 0
RECURSIVE hex(_)
hex(n) ==
    IF n < 16 THEN << HexDigits[n + 1] >> ELSE hex(n \div 16) \o << HexDigits[(n % 16) + 1] >>

\* f"{uid:>4X}": the field filled with spaces, the 0 of the format left out
format_uid_spaces(n) ==
    LET d == hex(n)
    IN  [ k \in 1..(PadWidth - Len(d)) |-> " " ] \o d

\* f"{uid:>04X}": right-aligned in a field of at least 4, filled with "0"
format_uid(n) ==
    LET d == hex(n)
    IN  [ k \in 1..(PadWidth - Len(d)) |-> "0" ] \o d

\* The literal text before the UID in the label's f-string.
Header == << "A", "M", "H", " " >>

\* f"AMH {uid:>04X}\n\n" + Generator._format_ident(book.ident)
make_label_text(n, ident) ==
    Header \o format_uid(n) \o << "\n", "\n" >> \o format_ident(ident)

\* len(book.ident.replace(" ", "")) < 6
ShortLocLimit == 6

is_short_loc(ident) == Len(SelectSeq(ident, LAMBDA c : c # " ")) < ShortLocLimit

\* ----------------------------------------------------------------- bounds

\* Longest enumerated call number handed to _format_ident.
MaxLen == 5

\* Longest enumerated classification handed to the year-suffix test.
MaxYearLen == 4

\* Books stored in one run of the prompt loop.
MaxBooks == 2

\* One character of each kind the formatter tells apart.
FmtAlphabet == { "a", "B", "1", ".", " " }

\* The digits of the boundary years 0999, 1000, 2999, 3000, and a letter.
YearAlphabet == { "0", "1", "2", "3", "9", "b" }

Strings(alphabet, n) == UNION { [1..k -> alphabet] : k \in 0..n }

\* Call numbers of the docstring's and the catalogue's shapes.
FmtExamples ==
    { << "R", "E", "F", " ", "P", "S", "3", "5", "1", "5", " ", ".", "I", "9", " ", "Z", "4", "6", "5", " ", "1", "9", "8", "7" >>,
      << "Q", "A", "7", "6", ".", "7", "3", ".", "P", "9", "8", " ", "v", ".", "2" >>,
      << "H", "D", "3", "0", ".", "2", "2", " ", "T", "8", "E", "2" >>,
      << "H", "D", "3", "0", ".", "2", "2", " ", ".", "T", "8", "E", "2" >>,
      << "H", "D", " ", "3", "0", ".", "2", "2", " ", ".", "T", "8", " ", "E", "2" >>,
      << "H", "D", "3", "0", " ", "b", " ", "1", "9", "8", "3" >>,
      << "H", "D", "3", "0", " ", "1", "9", "8", "3", " ", ".", "T", "8" >>,
      << "H", "D", "3", "0", ".", "2", "2" >>,
      << "H", "D", "3", "0", " ", "C", ".", "1", " ", "1", "9", "8", "3", "b" >>,
      << "j", "u", "v", " ", " ", "q", "a", " ", "7", "6", " ", ".", "5", ".", "x", "2", "y", "3" >>,
      << "H", "D", "3", "0", " ", ".", "t", "8", " ", "1", "9", "8", "3", " ", "v", ".", "2", " ", "x", "9" >> }

FmtInputs == Strings(FmtAlphabet, MaxLen) \cup FmtExamples

\* Classifications longer than the enumerated ones.
YearExamples ==
    { << "1", "9", "8", "3", "b" >>,
      << "2", "9", "9", "9", "b" >>,
      << "1", "0", "0", "0", "b" >>,
      << "0", "9", "9", "9", "b" >>,
      << "3", "0", "0", "0", "b" >>,
      << "H", "D", "3", "0", " ", "1", "9", "8", "3" >>,
      << "H", "D", "3", "0", " ", "1", "9", "8", "3", "b" >>,
      << "H", "D", "3", "0", ".", "2", "2", " ", ".", "T", "8" >>,
      << "Q", "A", " ", "7", "6", " ", "1", "9", "8", "b" >>,
      << "H", "D", "3", "0", " ", "1", "9", "8", "3", " " >> }

YearIdents == (Strings(YearAlphabet, MaxYearLen) \cup YearExamples) \ { << >> }

\* Values of book.year: None, or the publish_date string.
YearValues ==
    { None,
      << "1", "9", "8", "3" >>,
      << "c", "1", "9", "8", "3" >>,
      << "8", "3" >>,
      << >> }

\* ------------------------------------------------------------------ state

VARIABLES
    \* _format_ident: its argument, its locals and its return value
    call_number, fpc, parts, cn, tokens, i, normalized, final_lines, result,
    \* the formatter's driver: which application this is, and the lines of the one before
    npass, previous,
    \* prompt_book / main: position, the rapid flag, the Book, the uid local, the label
    pc, rapid, book, uid, label_text,
    \* the files current-id.txt and books.csv (a sequence of lines)
    uid_file, books_csv

fmt_vars == << call_number, fpc, parts, cn, tokens, i, normalized, final_lines, result,
               npass, previous >>

flow_vars == << pc, rapid, book, uid, label_text, uid_file, books_csv >>

vars == << fmt_vars, flow_vars >>

\* The formatter at rest, before a call.
FmtIdle ==
    /\ fpc = "idle"
    /\ parts = << >>
    /\ cn = << >>
    /\ tokens = << >>
    /\ i = 0
    /\ normalized = << >>
    /\ final_lines = << >>
    /\ result = << >>
    /\ npass = 1
    /\ previous = << >>

\* Book(None, None, None, None, None)
NoBook == [isbn |-> None, ident |-> None, title |-> None, authors |-> None, year |-> None]

\* main() before the first prompt_book call, current-id.txt holding "0".
FlowIdle ==
    /\ pc = "AwaitingIsbn"
    /\ rapid = FALSE
    /\ book = NoBook
    /\ uid = 0
    /\ label_text = << >>
    /\ uid_file = << "0" >>
    /\ books_csv = << >>

\* ----------------------------------------------- _format_ident, step by step

\* A caller hands a call number to _format_ident.
FmtCall ==
    /\ fpc = "idle"
    /\ call_number' \in FmtInputs
    /\ fpc' = "start"
    /\ UNCHANGED << parts, cn, tokens, i, normalized, final_lines, result, npass, previous >>
    /\ UNCHANGED flow_vars

\* The first return, whitespace normalisation and parts = [].
FmtBegin ==
    /\ fpc = "start"
    /\ IF IsBlank(call_number)
       THEN /\ fpc' = "done"
            /\ result' = << >>
            /\ final_lines' = << >>
            /\ cn' = cn
       ELSE /\ fpc' = "prefix"
            /\ cn' = CollapseWhitespace(strip(call_number))
            /\ UNCHANGED << result, final_lines >>
    /\ parts' = << >>
    /\ UNCHANGED << call_number, tokens, i, normalized, npass, previous >>
    /\ UNCHANGED flow_vars

\* "Common prefixes"
FmtPrefix ==
    /\ fpc = "prefix"
    /\ LET r == StripPrefix(parts, cn)
       IN  parts' = r.parts /\ cn' = r.cn
    /\ fpc' = "main"
    /\ UNCHANGED << call_number, tokens, i, normalized, final_lines, result, npass, previous >>
    /\ UNCHANGED flow_vars

\* "Main class (letters + number, allow space)" and its fallback
FmtMainClass ==
    /\ fpc = "main"
    /\ LET r == TakeMainClass(parts, cn)
       IN  /\ parts' = r.parts
           /\ cn' = r.cn
           /\ fpc' = IF r.raised THEN "raised" ELSE "tokenize"
    /\ UNCHANGED << call_number, tokens, i, normalized, final_lines, result, npass, previous >>
    /\ UNCHANGED flow_vars

\* "Space out dots", tokens, normalized = [], i = 0
FmtTokenize ==
    /\ fpc = "tokenize"
    /\ tokens' = Tokenize(cn)
    /\ normalized' = << >>
    /\ i' = 0
    /\ fpc' = "loop"
    /\ UNCHANGED << call_number, parts, cn, final_lines, result, npass, previous >>
    /\ UNCHANGED flow_vars

\* One iteration of while i < len(tokens)
FmtLoop ==
    /\ fpc = "loop"
    /\ i < Len(tokens)
    /\ LET r == WalkStep(tokens, i, normalized)
       IN  i' = r.i /\ normalized' = r.normalized
    /\ UNCHANGED << call_number, fpc, parts, cn, tokens, final_lines, result, npass, previous >>
    /\ UNCHANGED flow_vars

\* The loop's exit, the casing rules, final_lines and the return
FmtReturn ==
    /\ fpc = "loop"
    /\ ~(i < Len(tokens))
    /\ final_lines' = parts \o PostProcess(normalized)
    /\ result' = join(parts \o PostProcess(normalized))
    /\ fpc' = "done"
    /\ UNCHANGED << call_number, parts, cn, tokens, i, normalized, npass, previous >>
    /\ UNCHANGED flow_vars

\* A second call of _format_ident, on the string the first one returned.
FmtAgain ==
    /\ fpc = "done"
    /\ npass = 1
    /\ call_number' = result
    /\ previous' = final_lines
    /\ npass' = 2
    /\ fpc' = "start"
    /\ UNCHANGED << parts, cn, tokens, i, normalized, final_lines, result >>
    /\ UNCHANGED flow_vars

InitFmt ==
    /\ call_number = << >>
    /\ FmtIdle
    /\ FlowIdle

\* The steps of one call of _format_ident.
FmtRun ==
    \/ FmtBegin
    \/ FmtPrefix
    \/ FmtMainClass
    \/ FmtTokenize
    \/ FmtLoop
    \/ FmtReturn

NextFmt ==
    \/ FmtCall
    \/ FmtRun
    \/ FmtAgain

SpecFmt == InitFmt /\ [][NextFmt]_vars

\* ------------------------------------------------------- the year-suffix step

\* prompt_book: the year suffix is added to book.ident before the book is stored.
EnsureYear ==
    /\ pc = "EnsureYear"
    /\ book' = [book EXCEPT !.ident = ensure_year(book.ident, book.year)]
    /\ pc' = "StoreCounter"
    /\ UNCHANGED << rapid, uid, label_text, uid_file, books_csv >>
    /\ UNCHANGED fmt_vars

Title == << "T" >>

Authors == << "A" >>

Isbn == << "1" >>

InitYear ==
    /\ pc = "EnsureYear"
    /\ rapid = FALSE
    /\ \E id \in YearIdents, y \in YearValues :
           book = [isbn |-> Isbn, ident |-> id, title |-> Title, authors |-> Authors,
                   year |-> y]
    /\ uid = 0
    /\ label_text = << >>
    /\ uid_file = << "0" >>
    /\ books_csv = << >>
    /\ call_number = << >>
    /\ FmtIdle

NextYear == EnsureYear

SpecYear == InitYear /\ [][NextYear]_vars

\* ------------------------------------------------- prompt_book and store_book

\* Values of ident that _query_book returns: None, "", or the classification with
\* every run of other characters replaced by a space.
FlowIdents ==
    { None,
      << >>,
      << "H", "D", "3", "0", ".", "2", "2", " ", ".", "T", "8" >>,
      << "Q", "A", "7", "6", " ", "1", "9", "8", "3" >>,
      << "P", "S", "3", "5", " ", ".", "a", "1" >>,
      << " " >> }

FlowYears == { None, << "1", "9", "8", "3" >>, << "c", "1", "9", "9", "9" >> }

\* What _query_book returns: None (here NoBook), or a Book.
QueryResults ==
    { NoBook } \cup
    { [isbn |-> Isbn, ident |-> id, title |-> Title, authors |-> Authors, year |-> y] :
        id \in FlowIdents, y \in FlowYears }

\* current-id.txt as the run finds it: a decimal number, with or without a newline.
InitialUidFiles == { str(4), str(9) \o << "\n" >>, str(65534) }

\* prompt_book returns False or None: its locals end with the call, and main's
\* loop calls it again.
Return ==
    /\ pc' = "AwaitingIsbn"
    /\ book' = NoBook
    /\ uid' = 0
    /\ label_text' = << >>

\* isbn == "quit": return True, and main's loop ends
Quit ==
    /\ pc = "AwaitingIsbn"
    /\ pc' = "Exited"
    /\ UNCHANGED << rapid, book, uid, label_text, uid_file, books_csv >>
    /\ UNCHANGED fmt_vars

\* book = Generator._query_book(isbn)
Lookup ==
    /\ pc = "AwaitingIsbn"
    /\ Len(books_csv) < MaxBooks
    /\ book' \in QueryResults
    /\ pc' = "LookedUp"
    /\ UNCHANGED << rapid, uid, label_text, uid_file, books_csv >>
    /\ UNCHANGED fmt_vars

\* if book is None: "Book not found" (manual mode only prints), return False
NotFound ==
    /\ pc = "LookedUp"
    /\ book = NoBook
    /\ Return
    /\ UNCHANGED << rapid, uid_file, books_csv >>
    /\ UNCHANGED fmt_vars

\* if book.ident is None or book.ident == "": return False
NoIdent ==
    /\ pc = "LookedUp"
    /\ book # NoBook
    /\ book.ident \in { None, << >> }
    /\ Return
    /\ UNCHANGED << rapid, uid_file, books_csv >>
    /\ UNCHANGED fmt_vars

HasIdent == book # NoBook /\ book.ident \notin { None, << >> }

\* "Is this correct?" answered n or no, outside rapid mode: return False
Reject ==
    /\ pc = "LookedUp"
    /\ HasIdent
    /\ ~rapid
    /\ Return
    /\ UNCHANGED << rapid, uid_file, books_csv >>
    /\ UNCHANGED fmt_vars

\* rapid mode, or any other answer
Accept ==
    /\ pc = "LookedUp"
    /\ HasIdent
    /\ pc' = "Confirmed"
    /\ UNCHANGED << rapid, book, uid, label_text, uid_file, books_csv >>
    /\ UNCHANGED fmt_vars

\* "Warning: Short LOC. Continue?" not answered y or yes: return False
ShortReject ==
    /\ pc = "Confirmed"
    /\ is_short_loc(book.ident)
    /\ Return
    /\ UNCHANGED << rapid, uid_file, books_csv >>
    /\ UNCHANGED fmt_vars

\* The classification is long enough, or the operator continues
Proceed ==
    /\ pc = "Confirmed"
    /\ pc' = "EnsureYear"
    /\ UNCHANGED << rapid, book, uid, label_text, uid_file, books_csv >>
    /\ UNCHANGED fmt_vars

\* store_book, first with block: read, increment and write back the counter
StoreCounter ==
    /\ pc = "StoreCounter"
    /\ uid' = read_uid(uid_file) + 1
    /\ uid_file' = store_counter(uid_file)
    /\ pc' = "StoreAppend"
    /\ UNCHANGED << rapid, book, label_text, books_csv >>
    /\ UNCHANGED fmt_vars

\* store_book, second with block: append the record; return current_uid
StoreAppend ==
    /\ pc = "StoreAppend"
    /\ books_csv' = Append(books_csv, csv_line(uid, book))
    /\ pc' = "Label"
    /\ UNCHANGED << rapid, book, uid, label_text, uid_file >>
    /\ UNCHANGED fmt_vars

\* label_text = f"AMH {uid:>04X}\n\n" + Generator._format_ident(book.ident)
MakeLabel ==
    /\ pc = "Label"
    /\ label_text' = make_label_text(uid, book.ident)
    /\ pc' = "Render"
    /\ UNCHANGED << rapid, book, uid, uid_file, books_csv >>
    /\ UNCHANGED fmt_vars

\* _text_to_image, label.save, self.print; prompt_book returns None
PrintLabel ==
    /\ pc = "Render"
    /\ Return
    /\ UNCHANGED << rapid, uid_file, books_csv >>
    /\ UNCHANGED fmt_vars

Init ==
    /\ pc = "AwaitingIsbn"
    /\ rapid \in BOOLEAN
    /\ book = NoBook
    /\ uid = 0
    /\ label_text = << >>
    /\ uid_file \in InitialUidFiles
    /\ books_csv = << >>
    /\ call_number = << >>
    /\ FmtIdle

Next ==
    \/ Quit
    \/ Lookup
    \/ NotFound
    \/ NoIdent
    \/ Reject
    \/ Accept
    \/ ShortReject
    \/ Proceed
    \/ EnsureYear
    \/ StoreCounter
    \/ StoreAppend
    \/ MakeLabel
    \/ PrintLabel

Spec == Init /\ [][Next]_vars

\* ================================================================ properties

\* The value of a string of hexadecimal digits.
RECURSIVE HexValue(_)
HexValue(s) ==
    IF s = << >> THEN 0
    ELSE 16 * HexValue(SubSeq(s, 1, Len(s) - 1))
             + (CHOOSE k \in 1..16 : HexDigits[k] = s[Len(s)]) - 1

\* t is n in uppercase hexadecimal, zero-padded to at least 4 characters.
IsPaddedHex(t, n) ==
    /\ Len(t) >= 4
    /\ \A k \in 1..Len(t) : t[k] \in Range(HexDigits)
    /\ HexValue(t) = n
    /\ (Len(t) > 4 => t[1] # "0")

\* The lines of the label text after its first two: the canonical lines, or one
\* empty line when there are none.
LabelTail(ls) == IF ls = << >> THEN << << >> >> ELSE ls

\* C1 as stated: the label's lines are a header line, a blank line, a line holding
\* the UID as zero-padded uppercase hexadecimal, then the canonical lines.
C1_HeaderBlankUidLines ==
    pc = "Render" =>
        LET L == split_lines(label_text)
            ls == format_lines(book.ident)
        IN  /\ Len(L) >= 3
            /\ L[1] = << "A", "M", "H" >>
            /\ L[2] = << >>
            /\ IsPaddedHex(L[3], uid)
            /\ SubSeq(L, 4, Len(L)) = ls

\* C1 as amended: the label's first line holds the header AMH, one space and the UID
\* as uppercase hexadecimal zero-padded to at least 4 characters; the second line
\* is blank; the canonical lines follow unchanged.
C1_LabelLayout ==
    pc = "Render" =>
        LET L == split_lines(label_text)
            ls == format_lines(book.ident)
        IN  /\ Len(L) >= 3
            /\ Take(L[1], 4) = << "A", "M", "H", " " >>
            /\ IsPaddedHex(Drop(L[1], 4), uid)
            /\ L[2] = << >>
            /\ SubSeq(L, 3, Len(L)) = LabelTail(ls)

\* C1 witness: the label of UID 5 with the canonical lines HD30.22 and .T8.
C1_Witness ==
    /\ pc = "Render"
    /\ uid = 5
    /\ format_lines(book.ident) = << << "H", "D", "3", "0", ".", "2", "2" >>,
           << ".", "T", "8" >> >>
    /\ split_lines(label_text)[1] = << "A", "M", "H", " ", "0", "0", "0", "5" >>

VolExample == << "Q", "A", "7", "6", ".", "7", "3", ".", "P", "9", "8", " ", "v", ".", "2" >>

\* The input was not blank, so the call ran through the token walk: cn holds the
\* part after the main class.
Walked == fpc = "done" /\ ~IsBlank(call_number)

\* C2: every v.<digits> / c.<digits> token of the part after the main class is one
\* output line, lowercased; QA76.73.P98 v.2 ends in the lines .P98 and v.2.
C2_VolumeCopyMarkers ==
    Walked =>
        /\ \A k \in 1..Len(split(cn)) :
               IsVolCopy(split(cn)[k]) =>
                   \E j \in 1..Len(final_lines) : final_lines[j] = lower(split(cn)[k])
        /\ call_number = VolExample =>
               /\ final_lines[Len(final_lines)] = << "v", ".", "2" >>
               /\ final_lines[Len(final_lines) - 1] = << ".", "P", "9", "8" >>

\* s is two or more <letters><digits> groups and nothing else.
IsCombinedCutter(s) ==
    /\ \A k \in 1..Len(s) : s[k] \in Letters \cup DigitSet
    /\ s # << >>
    /\ s[1] \in Letters
    /\ s[Len(s)] \in DigitSet
    /\ Cardinality({ k \in 2..Len(s) : s[k] \in Letters /\ s[k - 1] \in DigitSet }) >= 1

\* The letter-to-digit groups of a combined cutter, one line each: a dot, the
\* letters uppercased, the digits.
RECURSIVE GroupLines(_)
GroupLines(s) ==
    IF s = << >> THEN << >>
    ELSE LET a == SpanLen(s, Letters)
             d == SpanLen(Drop(s, a), DigitSet)
         IN  << << "." >> \o upper(Take(s, a)) \o SubSeq(s, a + 1, a + d) >>
                 \o GroupLines(Drop(s, a + d))

Contains(ls, sub) ==
    \E j \in 0..(Len(ls) - Len(sub)) : SubSeq(ls, j + 1, j + Len(sub)) = sub

\* C3: a token of two or more <letters><digits> groups, with or without a leading
\* dot, is emitted as one cutter line per group, in order.
C3_CombinedCutters ==
    Walked =>
        \A k \in 1..Len(split(cn)) :
            LET t == split(cn)[k]
                core == IF t[1] = "." THEN Tail(t) ELSE t
            IN  IsCombinedCutter(core) => Contains(final_lines, GroupLines(core))

RefExample == << "R", "E", "F", " ", "P", "S", "3", "5", "1", "5", " ", ".", "I", "9", " ", "Z", "4", "6", "5", " ", "1", "9", "8", "7" >>

\* C4 as stated: REF PS3515 .I9 Z465 1987 gives REF, PS3515, .I9, Z465, 1987.
C4_UndottedKept ==
    (fpc = "done" /\ call_number = RefExample) =>
        final_lines = << << "R", "E", "F" >>,
           << "P", "S", "3", "5", "1", "5" >>,
           << ".", "I", "9" >>,
           << "Z", "4", "6", "5" >>,
           << "1", "9", "8", "7" >> >>

\* C4 as amended: REF PS3515 .I9 Z465 1987 gives REF, PS3515, .I9, .Z465, 1987: the
\* prefix is the first line and the undotted cutter Z465 is given its dot.
C4_PrefixExample ==
    (fpc = "done" /\ call_number = RefExample) =>
        final_lines = << << "R", "E", "F" >>,
           << "P", "S", "3", "5", "1", "5" >>,
           << ".", "I", "9" >>,
           << ".", "Z", "4", "6", "5" >>,
           << "1", "9", "8", "7" >> >>

\* C4 witness: the first call on the example has returned.
C4_Witness == fpc = "done" /\ npass = 1 /\ call_number = RefExample /\ Len(final_lines) = 5

\* C5: formatting the joined output of a call gives the same lines again.
C5_Idempotent == (fpc = "done" /\ npass = 2) => final_lines = previous

\* The input is empty or all whitespace.
AllWhitespace(s) == \A k \in 1..Len(s) : s[k] \in Whitespace

\* The order of the positions of one call.
PhaseRank ==
    [ p \in { "idle", "start", "prefix", "main", "tokenize", "loop", "done", "raised" } |->
        CASE p = "idle" -> 0
          [] p = "start" -> 1
          [] p = "prefix" -> 2
          [] p = "main" -> 3
          [] p = "tokenize" -> 4
          [] p = "loop" -> 5
          [] p = "done" -> 6
          [] p = "raised" -> 7 ]

\* C6: every call ends without raising: each step moves the call to a later
\* position or, inside the token loop, moves the index forward and not past the
\* tokens; the result is empty exactly for an empty or all-whitespace input, and has
\* at least one line otherwise.
C6_Totality ==
    [][/\ fpc' # "raised"
       /\ (fpc = "loop" /\ fpc' = "loop") => (i < i' /\ i' <= Len(tokens))
       /\ (fpc \notin { "idle", "done" } /\ fpc' # "loop") =>
              PhaseRank[fpc] < PhaseRank[fpc']
       /\ (fpc \notin { "idle", "done" } /\ fpc' = "loop") => fpc \in { "tokenize", "loop" }
       /\ fpc' = "done" =>
              /\ (result' = << >>) <=> AllWhitespace(call_number')
              /\ (Len(final_lines') >= 1) <=> ~AllWhitespace(call_number')]_vars

\* C6 witness: a call that took the first-token fallback and walked several tokens.
C6_Witness ==
    /\ fpc = "done"
    /\ npass = 1
    /\ prefix_match(CollapseWhitespace(strip(call_number))) = 0
    /\ main_match(CollapseWhitespace(strip(call_number))).end = 0
    /\ Len(tokens) >= 3
    /\ i = Len(tokens)
    /\ Len(final_lines) >= 2

\* text without one trailing letter
StripOneLetter(text) ==
    IF text # << >> /\ text[Len(text)] \in Letters
    THEN SubSeq(text, 1, Len(text) - 1)
    ELSE text

\* After stripping one trailing letter, the last 4 characters are digits of a value
\* in 1000..2999.
EndsInValidYear(text) ==
    LET u == StripOneLetter(text)
        n == Len(u)
    IN  /\ n >= 4
        /\ \A k \in (n - 3)..n : u[k] \in DigitSet
        /\ LET v == 1000 * DigitVal(u[n - 3]) + 100 * DigitVal(u[n - 2])
                        + 10 * DigitVal(u[n - 1]) + DigitVal(u[n])
           IN  1000 <= v /\ v <= 2999

\* The last 4 characters of y, or all of y when it has fewer.
LastFour(y) == SubSeq(y, IF Len(y) > 4 THEN Len(y) - 3 ELSE 1, Len(y))

\* C7: the classification is unchanged when it ends in a valid year (one trailing
\* letter aside) or no fallback year is present; otherwise one space and the last 4
\* characters of the fallback year are appended.
C7_YearSuffixPolicy ==
    [][pc = "EnsureYear" =>
          book'.ident =
              IF EndsInValidYear(book.ident) \/ book.year = None
              THEN book.ident
              ELSE book.ident \o << " " >> \o LastFour(book.year)]_vars

\* C7 witness: 2999b, the upper boundary with a trailing letter, kept as it is
\* although a fallback year was supplied.
C7_Witness ==
    /\ pc = "StoreCounter"
    /\ book.ident = << "2", "9", "9", "9", "b" >>
    /\ book.year = << "1", "9", "8", "3" >>

\* A cutter line: a dot, letters, digits, optionally a decimal fraction.
IsCutterLine(l) ==
    /\ l # << >>
    /\ l[1] = "."
    /\ IsBareCutter(Tail(l))

\* An auxiliary line: a year with an optional letter, or a v./c. marker.
IsAuxLine(l) == IsYearToken(l) \/ IsVolCopy(l)

\* An auxiliary line stands before a cutter line, after the prefix and main class.
AuxBeforeCutter ==
    \E j, k \in (Len(parts) + 1)..Len(final_lines) :
        j < k /\ IsAuxLine(final_lines[j]) /\ IsCutterLine(final_lines[k])

\* C8 as stated: prefix, main class, all cutter lines, then all auxiliary lines: no
\* auxiliary line before a cutter line.
C8_CuttersBeforeAux == Walked => ~AuxBeforeCutter

\* The letters and digits of s, uppercased.
AlnumUpper(s) == upper(SelectSeq(s, LAMBDA c : c \in Letters \cup DigitSet))

RECURSIVE Flatten(_)
Flatten(ls) == IF ls = << >> THEN << >> ELSE ls[1] \o Flatten(Tail(ls))

\* a is b with some characters left out.
RECURSIVE IsSubsequence(_, _)
IsSubsequence(a, b) ==
    IF a = << >> THEN TRUE
    ELSE IF b = << >> THEN FALSE
    ELSE IF a[1] = b[1] THEN IsSubsequence(Tail(a), Tail(b))
    ELSE IsSubsequence(a, Tail(b))

\* C8 as amended: the lines are the prefix line (at most one, first), the main-class
\* line, then the lines of the token walk in the tokens' original order: cutter and
\* auxiliary lines are not regrouped.
C8_TokenOrder ==
    Walked =>
        /\ Len(parts) \in { 1, 2 }
        /\ Len(parts) = 2 => parts[1] \in Range(PrefixWords)
        /\ SubSeq(final_lines, 1, Len(parts)) = parts
        /\ AlnumUpper(Flatten(parts)) \o AlnumUpper(cn) = AlnumUpper(call_number)
        /\ IsSubsequence(AlnumUpper(Flatten(SubSeq(final_lines, Len(parts) + 1,
                                                   Len(final_lines)))),
                         AlnumUpper(cn))

\* C8 witness: a year line stands before a cutter line, as in the input.
C8_Witness == Walked /\ npass = 1 /\ AuxBeforeCutter

\* The counter value the log started from, given current-id.txt, books.csv and the
\* position: the counter less the records appended (less the one about to be).
StartUidOf(file, csv, p) ==
    read_uid(file) - Len(csv) - (IF p = "StoreAppend" THEN 1 ELSE 0)

\* The id a line of books.csv begins with.
RecordId(line) == int(Take(line, SpanLen(line, DigitSet)))

\* The ids of the records are start + 1, start + 2, ... in the order appended.
RecordIdsFollow(file, csv, p) ==
    \A k \in 1..Len(csv) : RecordId(csv[k]) = StartUidOf(file, csv, p) + k

\* C9: the counter is its starting value plus the number of records (the starting
\* value so computed never changes), the k-th record carries the id start + k,
\* store_book increments the counter in one step and then appends one record, and
\* the steps outside the store change neither file.
C9_CounterAndLog ==
    [][/\ StartUidOf(uid_file', books_csv', pc') = StartUidOf(uid_file, books_csv, pc)
       /\ RecordIdsFollow(uid_file', books_csv', pc')
       /\ pc = "StoreCounter" =>
              (/\ pc' = "StoreAppend"
               /\ read_uid(uid_file') = read_uid(uid_file) + 1
               /\ books_csv' = books_csv)
       /\ pc = "StoreAppend" =>
              (/\ pc' = "Label"
               /\ Len(books_csv') = Len(books_csv) + 1
               /\ SubSeq(books_csv', 1, Len(books_csv)) = books_csv
               /\ uid_file' = uid_file)
       /\ pc \notin { "StoreCounter", "StoreAppend" } =>
              (uid_file' = uid_file /\ books_csv' = books_csv)]_vars

\* C9 witness: two books stored from a counter of 9, the counter file grown to 11.
C9_Witness ==
    /\ pc = "AwaitingIsbn"
    /\ Len(books_csv) = 2
    /\ read_uid(uid_file) = 11
    /\ RecordId(books_csv[1]) = 10
    /\ RecordId(books_csv[2]) = 11

\* C10: a bare 4-digit token met when the last emitted line is a single letter is
\* appended to that line, and no line is added.
C10_YearMerge ==
    [][(/\ fpc = "loop"
        /\ i < Len(tokens)
        /\ IsBareYear(FoldDot(tokens, i).token)
        /\ normalized # << >>
        /\ IsSingleLetter(normalized[Len(normalized)]))
       => (/\ Len(normalized') = Len(normalized)
           /\ normalized'[Len(normalized)]
                  = normalized[Len(normalized)] \o FoldDot(tokens, i).token)]_vars

====
